---------------------------- MODULE Spec2Model ----------------------------
(***************************************************************************)
(* Sound Tab Manager: the popup controller (src/popup.js, the variant with *)
(* the global mute button, lines 1-207) over the browser adapter           *)
(* (src/browser-adapter.js) and the host's tab table.                      *)
(*                                                                         *)
(* One step of the model is one host callback together with the           *)
(* synchronous JavaScript (and promise continuations) that run off it, or *)
(* one user click up to the first host call it issues.  The host answers   *)
(* the requests in flight in any order, each with data or a last-error.    *)
(***************************************************************************)
EXTENDS Integers, Sequences, FiniteSets

\* Bounds of the model.
NumTabs == 2
MaxClicks == 2
MaxSnap == 4
MaxErrors == 1

Tabs == 1..NumTabs
NoTab == 0

VARIABLES
  hMuted,        \* host: tab -> mutedInfo.muted
  hAudible,      \* host: tab -> audible
  hActive,       \* host: the active tab of the current window, NoTab if none
  hLastWrite,    \* host: per tab, the update it applied last (see NoWrite)
  hostOverrides, \* host: whether an update may succeed yet leave the flag as it was
  hErrors,       \* host: the number of requests it has answered with a last-error
  initPc,        \* initializePopup: the host call it is waiting for
  currentTab,    \* popup.js: let currentTab
  allTabsMuted,  \* popup.js: let allTabsMuted
  label,         \* globalMuteButton.textContent
  listening,     \* globalMuteButton has its click listener
  tabsList,      \* the content of the #tabs-list element
  checks,        \* getAllTabs queries of checkAllTabsMutedState in flight
  clicks,        \* the number of clicks so far
  handlers,      \* the click handlers with a host call in flight, in click order
  lastDone,      \* the click handler that finished last
  probeTabs,     \* a tab snapshot handed to checkAllTabsMutedState on its own
  sPc,           \* the popup without global button: the host call loadSoundTabs waits for
  sList,         \* the popup without global button: the content of #tabs-list
  sHandlers      \* the popup without global button: its toggleMute runs in flight

vars == <<hMuted, hAudible, hActive, hLastWrite, hostOverrides, hErrors, initPc,
          currentTab, allTabsMuted, label, listening, tabsList, checks,
          clicks, handlers, lastDone, probeTabs, sPc, sList, sHandlers>>

\* the state of the popup without the global button (popup.js, second listener)
simpleVars == <<sPc, sList, sHandlers>>

hostVars == <<hMuted, hAudible, hActive, hLastWrite, hostOverrides>>

----------------------------------------------------------------------------
\* Tab records as the host returns them.

NoInfo == [present |-> FALSE, muted |-> FALSE]
MutedInfo(m) == [present |-> TRUE, muted |-> m]

\* "null" for currentTab
Null == [id |-> NoTab, audible |-> FALSE, mutedInfo |-> NoInfo]

TabRecord(t) == [id |-> t, audible |-> hAudible[t], mutedInfo |-> MutedInfo(hMuted[t])]

RECURSIVE SnapshotFrom(_)
SnapshotFrom(t) == IF t > NumTabs THEN <<>> ELSE <<TabRecord(t)>> \o SnapshotFrom(t + 1)

\* api.tabs.query({}, ...)
QueryAll == SnapshotFrom(1)

IsAudible(tab) == tab.audible

\* api.tabs.query({ audible: true }, ...)
QueryAudible == SelectSeq(QueryAll, IsAudible)

\* api.tabs.query({ active: true, currentWindow: true }, ...)
QueryActive == IF hActive = NoTab THEN <<>> ELSE <<TabRecord(hActive)>>

----------------------------------------------------------------------------
\* Pure parts of popup.js.

\* tab.mutedInfo && tab.mutedInfo.muted
TabIsMuted(tab) == tab.mutedInfo.present /\ tab.mutedInfo.muted

\* allTabs.length > 0 && allTabs.every(...)
AllMutedOfBug(allTabs) == \A i \in 1..Len(allTabs) : TabIsMuted(allTabs[i])
AllMutedOf(allTabs) ==
  Len(allTabs) > 0 /\ \A i \in 1..Len(allTabs) : TabIsMuted(allTabs[i])

\* currentTab && currentTab.audible
ActiveAudible(tab) == tab.id # NoTab /\ tab.audible

\* the branches of updateGlobalMuteButton
LabelForBug(all, tab) ==
  IF ActiveAudible(tab) THEN "Mute others"
  ELSE IF all THEN "Unmute all" ELSE "Mute all"
LabelFor(all, tab) ==
  IF all THEN "Unmute all"
  ELSE IF ActiveAudible(tab) THEN "Mute others" ELSE "Mute all"

\* the branches of handleGlobalMuteButtonClick
OpFor(all, tab) ==
  IF all THEN "unmuteAll"
  ELSE IF ActiveAudible(tab) THEN "muteAllExcept" ELSE "muteAll"

\* renderTabsList / createTabElement: one row per tab, showing its muted flag
RowOf(tab) == [id |-> tab.id, muted |-> tab.mutedInfo.muted]
RenderedReversed(tabs) ==
  IF Len(tabs) = 0 THEN [kind |-> "quiet", rows |-> <<>>]
  ELSE [kind |-> "rows", rows |-> [i \in 1..Len(tabs) |-> RowOf(tabs[Len(tabs) + 1 - i])]]
Rendered(tabs) ==
  IF Len(tabs) = 0 THEN [kind |-> "quiet", rows |-> <<>>]
  ELSE [kind |-> "rows", rows |-> [i \in 1..Len(tabs) |-> RowOf(tabs[i])]]

LoadError == [kind |-> "loadError", rows |-> <<>>]
\* tabsList.innerHTML = `<div class="error">Error: ${error.message}</div>`
InitError(error) == [kind |-> "initError", rows |-> <<>>, msg |-> error]
Loading == [kind |-> "loading", rows |-> <<>>]

----------------------------------------------------------------------------
\* Pure parts of browser-adapter.js.

\* the muted argument each bulk operation passes to setMuteState
TargetOf(op) == op # "unmuteAll"

\* the muted argument of the setMuteState call for one tab of a bulk operation
RequestedToggled(op, tab) == ~tab.mutedInfo.muted
Requested(op, tab) == TargetOf(op)

\* the tabs a bulk operation updates
QualifyingBug(op, allTabs, except) == {allTabs[i].id : i \in 1..Len(allTabs)}
Qualifying(op, allTabs, except) ==
  {allTabs[i].id : i \in {j \in 1..Len(allTabs) :
                            op # "muteAllExcept" \/ allTabs[j].id # except}}

\* const newMuteState = !tab.mutedInfo.muted  (shown: what the clicked row displays)
NewMuteStateCached(tab, shown) == ~shown
NewMuteStateSame(tab, shown) == tab.mutedInfo.muted
NewMuteState(tab, shown) == ~tab.mutedInfo.muted

\* setMuteState: resolve(updatedTab.mutedInfo.muted)
ResolvedValueBug(updatedTab, requested) == requested
ResolvedValue(updatedTab, requested) == updatedTab.mutedInfo.muted

\* Promise.all over the per-tab updates: the state of the aggregate once the
\* updates in `left` are still in flight and `failed` says whether one was rejected
PromiseAllHangs(settled, left, failed) ==
  IF settled # "pending" THEN settled
  ELSE IF failed THEN "rejected" ELSE "pending"
PromiseAllFirst(settled, left, failed) ==
  IF settled # "pending" THEN settled
  ELSE IF failed THEN "rejected" ELSE "resolved"
PromiseAllBug(settled, left, failed) ==
  IF settled # "pending" THEN settled
  ELSE IF left = {} THEN "resolved" ELSE "pending"
PromiseAll(settled, left, failed) ==
  IF settled # "pending" THEN settled
  ELSE IF failed THEN "rejected"
  ELSE IF left = {} THEN "resolved" ELSE "pending"

\* getCurrentTab: the promise, from the answer to api.tabs.query({ active: true,
\* currentWindow: true }) (ok: no last-error is set)
NoActiveTab == "No active tab found"
GetCurrentTabUnchecked(ok, tabs) ==
  IF ~ok THEN [settled |-> "rejected", error |-> "lastError", tab |-> Null]
  ELSE [settled |-> "resolved", error |-> "",
        tab |-> IF Len(tabs) = 0 THEN Null ELSE tabs[1]]
GetCurrentTab(ok, tabs) ==
  IF ~ok THEN [settled |-> "rejected", error |-> "lastError", tab |-> Null]
  ELSE IF Len(tabs) = 0
    THEN [settled |-> "rejected", error |-> NoActiveTab, tab |-> Null]
  ELSE [settled |-> "resolved", error |-> "", tab |-> tabs[1]]

\* setMuteState: the callback of api.tabs.update settles the promise, resolved
\* or rejected, and nothing calls api.tabs.update for the tab again
InFlightRetried(todo, t, outcome) == IF outcome = "err" THEN todo ELSE todo \ {t}
InFlightAfter(todo, t, outcome) == todo \ {t}

\* The host's answer to api.tabs.update(tabId, { muted }): the flag afterwards.
HostUpdate(outcome, old, requested) == IF outcome = "ok" THEN requested ELSE old

\* The answers the host may give: to a query or a read (TRUE: data, FALSE: a
\* last-error), and to an update.
Answers == IF hErrors < MaxErrors THEN BOOLEAN ELSE {TRUE}
Outcomes ==
  (IF hostOverrides THEN {"ok", "kept"} ELSE {"ok"})
    \cup (IF hErrors < MaxErrors THEN {"err"} ELSE {})
Counted(ok) == IF ok THEN hErrors ELSE hErrors + 1

----------------------------------------------------------------------------
\* Click handlers.  A handler is one run of toggleMute or of
\* handleGlobalMuteButtonClick, with the adapter call it awaits.
\*   pc        the host answer it waits for ("done": none)
\*   todo      tabs whose update is in flight
\*   issued    tabs an update was issued for
\*   failed    tabs whose update the host rejected
\*   results   for every update that resolved: the tab, the value it resolved
\*             with and the host's flag after the update
\*   settled   the adapter promise: pending, resolved or rejected
\*   attached  toggle: its button is still in the document
\*   shown     toggle: what its row displayed when it was clicked
\*   readDone  toggle: api.tabs.get has answered with the tab
\*   readVal   toggle: the muted value api.tabs.get returned
\*   prev      toggle: hLastWrite of its tab when api.tabs.get answered
\*   written   toggle: the muted value passed to api.tabs.update
\*   quiet     toggle: the host applied no other update to its tab since the click
\*   result    toggle: the value toggleMuteState resolved with
\*   again     bulk: tabs whose last applied update, when this one was applied,
\*             came from the same operation
\*   already   bulk: tabs that had the requested flag when the update was applied
\*   changed   bulk: tabs whose flag the update changed

\* What is remembered of the update the host applied last to a tab:
\*   op         the operation that issued it ("none": no update yet)
\*   quiet      a toggle's: the host applied no other update to the tab during the call
\*   readVal    a toggle's: the value its read returned
\*   result     a toggle's: the value it resolved with
\*   afterQuiet a toggle's: the value it read was written by a quiet toggle ...
\*   orig       ... which had read this value
NoWrite == [op |-> "none", quiet |-> FALSE, readVal |-> FALSE, result |-> FALSE,
            afterQuiet |-> FALSE, orig |-> FALSE]
BulkWrite(op) == [NoWrite EXCEPT !.op = op]
ToggleWrite(h, isMuted) ==
  [op |-> "toggle", quiet |-> h.quiet, readVal |-> h.readVal, result |-> isMuted,
   afterQuiet |-> h.prev.op = "toggle" /\ h.prev.quiet,
   orig |-> h.prev.op = "toggle" /\ h.prev.quiet /\ h.prev.readVal]

NewHandler(kind, op, tab, pc, shown) ==
  [kind |-> kind, op |-> op, tab |-> tab, pc |-> pc, todo |-> {}, issued |-> {},
   failed |-> {}, results |-> {}, settled |-> "pending", attached |-> kind = "toggle",
   shown |-> shown, readDone |-> FALSE, readVal |-> FALSE, prev |-> NoWrite,
   written |-> FALSE, quiet |-> kind = "toggle", result |-> FALSE,
   again |-> {}, already |-> {}, changed |-> {}]

NoHandler == NewHandler("none", "none", NoTab, "done", FALSE)

HandlerIds == 1..Len(handlers)

Remove(hs, i) == [j \in 1..(Len(hs) - 1) |-> IF j < i THEN hs[j] ELSE hs[j + 1]]

\* tabsList.innerHTML = ...: the buttons of the rows shown so far leave the document
Detached(hs) == [j \in 1..Len(hs) |-> [hs[j] EXCEPT !.attached = FALSE]]

\* the host applied an update of tab t for handler i: the other toggles of t saw it
Disturbed(hs, i, t) ==
  [j \in 1..Len(hs) |->
     IF j # i /\ hs[j].kind = "toggle" /\ hs[j].tab = t
       THEN [hs[j] EXCEPT !.quiet = FALSE] ELSE hs[j]]

\* button.title = ..., icon.src = ...: the row of the clicked button shows isMuted
ShowOnRow(list, tab, isMuted) ==
  [list EXCEPT !.rows = [r \in 1..Len(list.rows) |->
      IF list.rows[r].id = tab THEN [list.rows[r] EXCEPT !.muted = isMuted]
      ELSE list.rows[r]]]

\* toggleMute: the statements after `await toggleMuteState(...)` run when the
\* call resolved; a rejection goes to the catch block, which only logs
ContinuesAlways(outcome) == TRUE
Continues(outcome) == outcome # "err"

----------------------------------------------------------------------------
\* initializePopup

\* currentTab = await browserAdapter.getCurrentTab()
InitGetCurrentTab(ok) ==
  /\ initPc = "getCurrentTab"
  /\ hErrors' = Counted(ok)
  /\ LET p == GetCurrentTab(ok, QueryActive)
     IN IF p.settled = "resolved"
          THEN /\ currentTab' = p.tab
               /\ initPc' = "getSoundTabs"
               /\ tabsList' = tabsList
          ELSE /\ currentTab' = currentTab
               /\ initPc' = "failed"
               /\ tabsList' = InitError(p.error)
  /\ UNCHANGED <<hostVars, allTabsMuted, label, listening, checks, clicks,
                 handlers, lastDone, probeTabs>>

\* await loadSoundTabs(); updateGlobalMuteButton(); addEventListener('click', ...)
InitGetSoundTabs(ok) ==
  /\ initPc = "getSoundTabs"
  /\ hErrors' = Counted(ok)
  /\ tabsList' = IF ok THEN Rendered(QueryAudible) ELSE LoadError
  /\ checks' = checks + 1
  /\ label' = LabelFor(allTabsMuted, currentTab)
  /\ listening' = TRUE
  /\ initPc' = "done"
  /\ UNCHANGED <<hostVars, currentTab, allTabsMuted, clicks, handlers, lastDone,
                 probeTabs>>

\* checkAllTabsMutedState, from the answer to its getAllTabs on
CheckAnswer(ok) ==
  /\ checks > 0
  /\ hErrors' = Counted(ok)
  /\ checks' = checks - 1
  /\ allTabsMuted' = IF ok THEN AllMutedOf(QueryAll) ELSE FALSE
  /\ UNCHANGED <<hostVars, initPc, currentTab, label, listening, tabsList,
                 clicks, handlers, lastDone, probeTabs>>

----------------------------------------------------------------------------
\* handleGlobalMuteButtonClick

ClickGlobal ==
  /\ listening
  /\ clicks < MaxClicks
  /\ clicks' = clicks + 1
  /\ handlers' = Append(handlers,
       NewHandler("global", OpFor(allTabsMuted, currentTab),
                  IF OpFor(allTabsMuted, currentTab) = "muteAllExcept"
                    THEN currentTab.id ELSE NoTab,
                  "getAllTabs", FALSE))
  /\ UNCHANGED <<hostVars, hErrors, initPc, currentTab, allTabsMuted, label,
                 listening, tabsList, checks, lastDone, probeTabs>>

\* muteAll / unmuteAll / muteAllExcept: const allTabs = await this.getAllTabs(),
\* then one setMuteState per qualifying tab
GlobalGetAllTabs(i, ok) ==
  LET h == handlers[i]
      q == Qualifying(h.op, QueryAll, h.tab)
      s == IF ok THEN PromiseAll("pending", q, FALSE) ELSE "rejected"
      g == IF ok
             THEN [h EXCEPT !.todo = q, !.issued = q, !.settled = s,
                            !.pc = IF s = "resolved" THEN "getSoundTabs" ELSE "updates"]
             ELSE [h EXCEPT !.settled = s, !.pc = "done"]
  IN /\ h.pc = "getAllTabs"
     /\ hErrors' = Counted(ok)
     /\ handlers' = IF g.pc = "done" THEN Remove(handlers, i)
                    ELSE [handlers EXCEPT ![i] = g]
     /\ lastDone' = IF g.pc = "done" THEN g ELSE lastDone
     /\ UNCHANGED <<hostVars, initPc, currentTab, allTabsMuted, label, listening,
                    tabsList, checks, clicks, probeTabs>>

\* the host answers one setMuteState(tab.id, muted) of a bulk operation
GlobalUpdate(i, t, outcome) ==
  LET h == handlers[i]
      requested == Requested(h.op, TabRecord(t))
      now == HostUpdate(outcome, hMuted[t], requested)
      updatedTab == [TabRecord(t) EXCEPT !.mutedInfo = MutedInfo(now)]
      left == InFlightAfter(h.todo, t, outcome)
      s == PromiseAll(h.settled, left, outcome = "err")
      g == [h EXCEPT !.todo = left,
                     !.failed = IF outcome = "err" THEN @ \cup {t} ELSE @,
                     !.results = IF outcome = "err" THEN @
                                 ELSE @ \cup {[tab |-> t, host |-> now,
                                               value |-> ResolvedValue(updatedTab, requested)]},
                     !.again = IF outcome = "ok" /\ hLastWrite[t].op = h.op
                                 THEN @ \cup {t} ELSE @,
                     !.already = IF outcome = "ok" /\ hMuted[t] = requested
                                   THEN @ \cup {t} ELSE @,
                     !.changed = IF now # hMuted[t] THEN @ \cup {t} ELSE @,
                     !.settled = s,
                     !.pc = IF s = "resolved" THEN "getSoundTabs"
                            ELSE IF left = {} /\ s = "rejected" THEN "done"
                            ELSE "updates"]
      hs == IF outcome = "ok" THEN Disturbed(handlers, i, t) ELSE handlers
  IN /\ h.pc = "updates"
     /\ t \in h.todo
     /\ hErrors' = Counted(outcome # "err")
     /\ hMuted' = [hMuted EXCEPT ![t] = now]
     /\ hLastWrite' = [hLastWrite EXCEPT ![t] =
          IF outcome = "ok" THEN BulkWrite(h.op) ELSE @]
     /\ handlers' = IF g.pc = "done" THEN Remove(hs, i) ELSE [hs EXCEPT ![i] = g]
     /\ lastDone' = IF g.pc = "done" THEN g ELSE lastDone
     /\ UNCHANGED <<hAudible, hActive, hostOverrides, initPc, currentTab,
                    allTabsMuted, label, listening, tabsList, checks, clicks,
                    probeTabs>>

\* await loadSoundTabs(); updateGlobalMuteButton()
GlobalGetSoundTabs(i, ok) ==
  LET h == handlers[i]
  IN /\ h.pc = "getSoundTabs"
     /\ hErrors' = Counted(ok)
     /\ tabsList' = IF ok THEN Rendered(QueryAudible) ELSE LoadError
     /\ handlers' = Remove(Detached(handlers), i)
     /\ lastDone' = [h EXCEPT !.pc = "done"]
     /\ checks' = checks + 1
     /\ label' = LabelFor(allTabsMuted, currentTab)
     /\ UNCHANGED <<hostVars, initPc, currentTab, allTabsMuted, listening,
                    clicks, probeTabs>>

----------------------------------------------------------------------------
\* toggleMute

\* a click on the mute button of row r
ClickToggle(r) ==
  /\ tabsList.kind = "rows"
  /\ r \in 1..Len(tabsList.rows)
  /\ clicks < MaxClicks
  /\ clicks' = clicks + 1
  /\ handlers' = Append(handlers,
       NewHandler("toggle", "toggle", tabsList.rows[r].id, "get",
                  tabsList.rows[r].muted))
  /\ UNCHANGED <<hostVars, hErrors, initPc, currentTab, allTabsMuted, label,
                 listening, tabsList, checks, lastDone, probeTabs>>

\* toggleMuteState: the answer to api.tabs.get(tabId, ...)
ToggleGet(i, ok) ==
  LET h == handlers[i]
      tab == TabRecord(h.tab)
      g == IF ok
             THEN [h EXCEPT !.readDone = TRUE,
                            !.readVal = tab.mutedInfo.muted,
                            !.prev = hLastWrite[h.tab],
                            !.written = NewMuteState(tab, h.shown),
                            !.issued = {h.tab},
                            !.pc = "update"]
             ELSE [h EXCEPT !.settled = "rejected", !.pc = "done"]
  IN /\ h.pc = "get"
     /\ hErrors' = Counted(ok)
     /\ handlers' = IF ok THEN [handlers EXCEPT ![i] = g] ELSE Remove(handlers, i)
     /\ lastDone' = IF ok THEN lastDone ELSE g
     /\ UNCHANGED <<hostVars, initPc, currentTab, allTabsMuted, label, listening,
                    tabsList, checks, clicks, probeTabs>>

\* toggleMuteState: the answer to api.tabs.update(tabId, { muted: newMuteState }, ...),
\* then the rest of toggleMute
ToggleUpdate(i, outcome) ==
  LET h == handlers[i]
      t == h.tab
      now == HostUpdate(outcome, hMuted[t], h.written)
      updatedTab == [TabRecord(t) EXCEPT !.mutedInfo = MutedInfo(now)]
      isMuted == updatedTab.mutedInfo.muted
      g == IF outcome = "err"
             THEN [h EXCEPT !.settled = "rejected", !.pc = "done"]
             ELSE [h EXCEPT !.settled = "resolved", !.pc = "done", !.result = isMuted]
      hs == IF outcome = "ok" THEN Disturbed(handlers, i, t) ELSE handlers
  IN /\ h.pc = "update"
     /\ hErrors' = Counted(outcome # "err")
     /\ hMuted' = [hMuted EXCEPT ![t] = now]
     /\ hLastWrite' = [hLastWrite EXCEPT ![t] =
          IF outcome = "ok" THEN ToggleWrite(h, isMuted) ELSE @]
     /\ handlers' = Remove(hs, i)
     /\ lastDone' = g
     /\ tabsList' = IF Continues(outcome) /\ h.attached
                      THEN ShowOnRow(tabsList, t, isMuted) ELSE tabsList
     /\ checks' = IF Continues(outcome) THEN checks + 1 ELSE checks
     /\ label' = IF Continues(outcome) THEN LabelFor(allTabsMuted, currentTab) ELSE label
     /\ UNCHANGED <<hAudible, hActive, hostOverrides, initPc, currentTab,
                    allTabsMuted, listening, clicks, probeTabs>>

----------------------------------------------------------------------------
\* The popup without the global button (the second DOMContentLoaded listener of
\* popup.js): loadSoundTabs, renderTabsList, createTabElement and toggleMute.
\* Each action is its part of a step; the host's part is stated where it is used.

\* renderTabsList / createTabElement of this popup
SimpleRenderedNoPlaceholder(tabs) ==
  [kind |-> "rows", rows |-> [i \in 1..Len(tabs) |-> RowOf(tabs[i])]]
SimpleRendered(tabs) ==
  IF Len(tabs) = 0 THEN [kind |-> "quiet", rows |-> <<>>]
  ELSE [kind |-> "rows", rows |-> [i \in 1..Len(tabs) |-> RowOf(tabs[i])]]

\* a toggleMute run of this popup: the tab, what its row displayed at the click,
\* the host call it waits for and the value passed to api.tabs.update
SimpleHandler(tab, shown) ==
  [tab |-> tab, shown |-> shown, pc |-> "get", written |-> FALSE]

\* the popup has opened: loadSoundTabs() has issued getSoundTabs
SimpleInit ==
  /\ sPc = "getSoundTabs"
  /\ sList = Loading
  /\ sHandlers = <<>>

\* this popup takes no step
SimpleWaits == UNCHANGED simpleVars

\* loadSoundTabs: the answer to getSoundTabs
SimpleGetSoundTabs(ok) ==
  /\ sPc = "getSoundTabs"
  /\ sPc' = "done"
  /\ sList' = IF ok THEN SimpleRendered(QueryAudible) ELSE LoadError
  /\ UNCHANGED sHandlers

\* a click on the mute button of row r
SimpleClickToggle(r) ==
  /\ sList.kind = "rows"
  /\ r \in 1..Len(sList.rows)
  /\ sHandlers' = Append(sHandlers, SimpleHandler(sList.rows[r].id, sList.rows[r].muted))
  /\ UNCHANGED <<sPc, sList>>

\* toggleMuteState: the answer to api.tabs.get(tabId, ...)
SimpleToggleGet(i, ok) ==
  /\ i \in 1..Len(sHandlers)
  /\ sHandlers[i].pc = "get"
  /\ sHandlers' =
       IF ok THEN [sHandlers EXCEPT ![i].pc = "update",
                     ![i].written = NewMuteState(TabRecord(sHandlers[i].tab),
                                                 sHandlers[i].shown)]
       ELSE Remove(sHandlers, i)
  /\ UNCHANGED <<sPc, sList>>

\* toggleMuteState: the answer to api.tabs.update(...), then the rest of toggleMute
SimpleToggleUpdate(i, outcome) ==
  /\ i \in 1..Len(sHandlers)
  /\ sHandlers[i].pc = "update"
  /\ LET t == sHandlers[i].tab
         now == HostUpdate(outcome, hMuted[t], sHandlers[i].written)
         updatedTab == [TabRecord(t) EXCEPT !.mutedInfo = MutedInfo(now)]
         isMuted == updatedTab.mutedInfo.muted
     IN sList' = IF Continues(outcome) THEN ShowOnRow(sList, t, isMuted) ELSE sList
  /\ sHandlers' = Remove(sHandlers, i)
  /\ UNCHANGED sPc

----------------------------------------------------------------------------
\* The popup as it opens: initializePopup has issued getCurrentTab.

PopupInit ==
  /\ initPc = "getCurrentTab"
  /\ currentTab = Null
  /\ allTabsMuted = FALSE
  /\ label = "initial"
  /\ listening = FALSE
  /\ tabsList = Loading
  /\ checks = 0
  /\ clicks = 0
  /\ handlers = <<>>
  /\ lastDone = NoHandler

HostInit ==
  /\ hMuted \in [Tabs -> BOOLEAN]
  /\ hAudible \in [Tabs -> BOOLEAN]
  /\ hActive \in Tabs \cup {NoTab}
  /\ hLastWrite = [t \in Tabs |-> NoWrite]
  /\ hErrors = 0

Init ==
  /\ HostInit
  /\ hostOverrides = FALSE
  /\ PopupInit
  /\ SimpleInit
  /\ probeTabs = <<>>

Next ==
  \/ \E ok \in Answers : InitGetCurrentTab(ok) /\ SimpleWaits
  \/ \E ok \in Answers : InitGetSoundTabs(ok) /\ SimpleWaits
  \/ \E ok \in Answers : CheckAnswer(ok) /\ SimpleWaits
  \/ ClickGlobal /\ SimpleWaits
  \/ \E i \in HandlerIds, ok \in Answers : GlobalGetAllTabs(i, ok) /\ SimpleWaits
  \/ \E i \in HandlerIds, t \in Tabs, o \in Outcomes : GlobalUpdate(i, t, o) /\ SimpleWaits
  \/ \E i \in HandlerIds, ok \in Answers : GlobalGetSoundTabs(i, ok) /\ SimpleWaits
  \/ \E r \in 1..NumTabs : ClickToggle(r) /\ SimpleWaits
  \/ \E i \in HandlerIds, ok \in Answers : ToggleGet(i, ok) /\ SimpleWaits
  \/ \E i \in HandlerIds, o \in Outcomes : ToggleUpdate(i, o) /\ SimpleWaits

Spec == Init /\ [][Next]_vars

\* The same popup over a host that may answer an update with the flag left as it was.
InitHost ==
  /\ HostInit
  /\ hostOverrides \in BOOLEAN
  /\ PopupInit
  /\ SimpleInit
  /\ probeTabs = <<>>

SpecHost == InitHost /\ [][Next]_vars

\* The same popup over a host that answers every request it has received: each
\* callback the popup waits for is eventually called.  The user's clicks are
\* not forced.
SpecFair ==
  /\ Spec
  /\ WF_vars(\E ok \in Answers : InitGetCurrentTab(ok) /\ SimpleWaits)
  /\ WF_vars(\E ok \in Answers : InitGetSoundTabs(ok) /\ SimpleWaits)
  /\ WF_vars(\E ok \in Answers : CheckAnswer(ok) /\ SimpleWaits)
  /\ WF_vars(\E i \in HandlerIds, ok \in Answers : GlobalGetAllTabs(i, ok) /\ SimpleWaits)
  /\ WF_vars(\E i \in HandlerIds, t \in Tabs, o \in Outcomes : GlobalUpdate(i, t, o) /\ SimpleWaits)
  /\ WF_vars(\E i \in HandlerIds, ok \in Answers : GlobalGetSoundTabs(i, ok) /\ SimpleWaits)
  /\ WF_vars(\E i \in HandlerIds, ok \in Answers : ToggleGet(i, ok) /\ SimpleWaits)
  /\ WF_vars(\E i \in HandlerIds, o \in Outcomes : ToggleUpdate(i, o) /\ SimpleWaits)

\* The same popup while tabs start and stop playing sound: the host reports the
\* audible flag of a tab as it is at the time of each query.
HostAudibleChange(t) ==
  /\ hAudible' = [hAudible EXCEPT ![t] = ~@]
  /\ UNCHANGED <<hMuted, hActive, hLastWrite, hostOverrides, hErrors, initPc,
                 currentTab, allTabsMuted, label, listening, tabsList, checks,
                 clicks, handlers, lastDone, probeTabs>>

NextAudible ==
  \/ Next
  \/ \E t \in Tabs : HostAudibleChange(t) /\ SimpleWaits

SpecAudible == Init /\ [][NextAudible]_vars

\* The two popups side by side, opened over the same host table and given the
\* same clicks on row buttons and the same host answers; the global button is
\* never clicked.  A step is one event and what each popup does on it.  The
\* answers to getCurrentTab and to the getAllTabs of checkAllTabsMutedState
\* reach the popup with the global button alone; once that popup has stopped at
\* a rejected getCurrentTab, the other's getSoundTabs is answered alone.
SimpleLoadsAlone(ok) ==
  /\ initPc = "failed"
  /\ SimpleGetSoundTabs(ok)
  /\ hErrors' = Counted(ok)
  /\ UNCHANGED <<hostVars, initPc, currentTab, allTabsMuted, label, listening,
                 tabsList, checks, clicks, handlers, lastDone, probeTabs>>

NextVariants ==
  \/ \E ok \in Answers : InitGetCurrentTab(ok) /\ SimpleWaits
  \/ \E ok \in Answers : InitGetSoundTabs(ok) /\ SimpleGetSoundTabs(ok)
  \/ \E ok \in Answers : SimpleLoadsAlone(ok)
  \/ \E ok \in Answers : CheckAnswer(ok) /\ SimpleWaits
  \/ \E r \in 1..NumTabs : ClickToggle(r) /\ SimpleClickToggle(r)
  \/ \E i \in HandlerIds, ok \in Answers : ToggleGet(i, ok) /\ SimpleToggleGet(i, ok)
  \/ \E i \in HandlerIds, o \in Outcomes : ToggleUpdate(i, o) /\ SimpleToggleUpdate(i, o)

SpecVariants == InitHost /\ [][NextVariants]_vars

----------------------------------------------------------------------------
\* checkAllTabsMutedState and the branches of updateGlobalMuteButton on their
\* own, over every snapshot getAllTabs may return (a record may lack mutedInfo)
\* and every currentTab.

ProbeRecords ==
  {[id |-> 1, audible |-> FALSE, mutedInfo |-> m] :
     m \in {NoInfo, MutedInfo(FALSE), MutedInfo(TRUE)}}
Snapshots == UNION {[1..n -> ProbeRecords] : n \in 0..MaxSnap}
ProbeCurrent ==
  {Null} \cup {[id |-> 1, audible |-> a, mutedInfo |-> MutedInfo(FALSE)] : a \in BOOLEAN}

InitPure ==
  /\ hMuted = [t \in Tabs |-> FALSE]
  /\ hAudible = [t \in Tabs |-> FALSE]
  /\ hActive = NoTab
  /\ hLastWrite = [t \in Tabs |-> NoWrite]
  /\ hErrors = 0
  /\ hostOverrides = FALSE
  /\ initPc = "done"
  /\ currentTab \in ProbeCurrent
  /\ allTabsMuted \in BOOLEAN
  /\ label = "initial"
  /\ listening = FALSE
  /\ tabsList = Loading
  /\ checks = 1
  /\ clicks = 0
  /\ handlers = <<>>
  /\ lastDone = NoHandler
  /\ probeTabs \in Snapshots
  /\ SimpleInit

\* checkAllTabsMutedState: getAllTabs resolves with probeTabs
PureCheck ==
  /\ checks = 1
  /\ label = "initial"
  /\ checks' = 0
  /\ allTabsMuted' = AllMutedOf(probeTabs)
  /\ UNCHANGED <<hostVars, hErrors, initPc, currentTab, label, listening,
                 tabsList, clicks, handlers, lastDone, probeTabs>>

\* updateGlobalMuteButton: the label for what allTabsMuted and currentTab hold
PureRender ==
  /\ label = "initial"
  /\ label' = LabelFor(allTabsMuted, currentTab)
  /\ UNCHANGED <<hostVars, hErrors, initPc, currentTab, allTabsMuted, listening,
                 tabsList, checks, clicks, handlers, lastDone, probeTabs>>

NextPure ==
  \/ PureCheck /\ SimpleWaits
  \/ PureRender /\ SimpleWaits

SpecPure == InitPure /\ [][NextPure]_vars

----------------------------------------------------------------------------
\* Properties.

\* every click handler the state still knows: those in flight and the last finished
AllHandlers == {handlers[i] : i \in HandlerIds} \cup {lastDone}
Bulk(h) == h.kind = "global"
Toggle(h) == h.kind = "toggle"

\* the popup has no host call pending (orphaned bulk updates included)
Quiescent == initPc \in {"done", "failed"} /\ checks = 0 /\ handlers = <<>>

\* C1: once the popup is idle after a click handler that resolved (and no host
\* call ever failed), the label shown is the one a fresh query of the host
\* gives: "Unmute all" iff there is a tab and every tab is muted, else one of
\* "Mute others" / "Mute all".
C1_LabelIsFresh ==
  (Quiescent /\ hErrors = 0 /\ lastDone.settled = "resolved")
    => /\ (label = "Unmute all") <=> (NumTabs > 0 /\ \A t \in Tabs : hMuted[t])
       /\ label \in {"Unmute all", "Mute others", "Mute all"}

\* C2: opened over a host whose tabs (at least one) are all muted, the popup shows
\* "Unmute all" once initialisation and its host calls are over, and an
\* unmuteAll that resolved has unmuted every tab.
C2_OpenAllMuted ==
  /\ (initPc = "done" /\ checks = 0 /\ clicks = 0 /\ hErrors = 0
        /\ NumTabs > 0 /\ \A t \in Tabs : hMuted[t])
       => label = "Unmute all"
  /\ \A h \in AllHandlers :
       (h.op = "unmuteAll" /\ h.settled = "resolved")
         => /\ h.issued = Tabs
            /\ \A t \in Tabs : \E r \in h.results : r.tab = t /\ ~r.host

\* C3: the flag checkAllTabsMutedState derives from a snapshot is true iff the
\* snapshot has a tab and every tab of it carries mutedInfo with muted = true.
C3_AllMutedIff ==
  checks = 0 =>
    (allTabsMuted <=>
       ~(\/ probeTabs = <<>>
         \/ \E i \in DOMAIN probeTabs :
              \/ ~probeTabs[i].mutedInfo.present
              \/ ~probeTabs[i].mutedInfo.muted))
C3_Witness ==
  /\ checks = 0
  /\ Len(probeTabs) = 2
  /\ \/ allTabsMuted
     \/ \E i \in DOMAIN probeTabs : ~probeTabs[i].mutedInfo.present

\* C4: a rendered label is decided by (allTabsMuted, currentTab.audible) alone, in
\* the order allTabsMuted, then active tab audible, else the default; no
\* currentTab counts as not audible.
C4_LabelPriority ==
  label # "initial" =>
    /\ allTabsMuted => label = "Unmute all"
    /\ (~allTabsMuted /\ currentTab # Null /\ currentTab.audible) => label = "Mute others"
    /\ (~allTabsMuted /\ currentTab # Null /\ ~currentTab.audible) => label = "Mute all"
    /\ (~allTabsMuted /\ currentTab = Null) => label = "Mute all"
C4_Witness ==
  /\ label = "Unmute all"
  /\ currentTab # Null
  /\ currentTab.audible

\* C5: a muteAllExcept(x) that resolved issued no update for x and one update,
\* answered with muted = true, for every other tab of the host; the host never
\* applies an update of a muteAllExcept to the excepted tab.
C5_MuteAllExcept ==
  /\ \A h \in AllHandlers :
       (h.op = "muteAllExcept" /\ h.settled = "resolved")
         => /\ h.tab \notin h.issued
            /\ h.issued = Tabs \ {h.tab}
            /\ h.todo = {}
            /\ \A r \in h.results : r.tab # h.tab /\ r.host
            /\ \A t \in Tabs \ {h.tab} : \E r \in h.results : r.tab = t
  /\ \A t \in Tabs : hLastWrite[t].op = "muteAllExcept" => t # currentTab.id
C5_Witness ==
  /\ lastDone.op = "muteAllExcept"
  /\ lastDone.settled = "resolved"
  /\ lastDone.results # {}
  /\ ~hMuted[lastDone.tab]

\* C6: two toggleMuteState calls of one tab in sequence, neither disturbed by
\* another update of the tab: the first resolves with the negation of what it
\* read, the second with what the first read, and the host's flag is then what
\* it was before the first.
C6_ToggleTwice ==
  /\ \A h \in AllHandlers :
       (Toggle(h) /\ h.settled = "resolved" /\ h.quiet
          /\ h.prev.op = "toggle" /\ h.prev.quiet)
         => /\ h.prev.result = ~h.prev.readVal
            /\ h.result = h.prev.readVal
            /\ h.result = ~h.prev.result
  /\ \A t \in Tabs :
       (hLastWrite[t].op = "toggle" /\ hLastWrite[t].quiet /\ hLastWrite[t].afterQuiet)
         => hMuted[t] = hLastWrite[t].orig
C6_Witness ==
  /\ Toggle(lastDone)
  /\ lastDone.settled = "resolved"
  /\ lastDone.quiet
  /\ lastDone.prev.op = "toggle"
  /\ lastDone.prev.quiet
  /\ hLastWrite[lastDone.tab].afterQuiet
  /\ hMuted[lastDone.tab] = lastDone.prev.readVal

\* C7: whenever the popup has no host call pending, every row shows the host's
\* muted flag of its tab.
C7_RowsShowHost ==
  (Quiescent /\ tabsList.kind = "rows")
    => \A r \in DOMAIN tabsList.rows :
         tabsList.rows[r].muted = hMuted[tabsList.rows[r].id]

\* C8: a bulk operation one of whose updates failed is rejected, never
\* resolved; every tab gets at most one update from it, each carrying the
\* operation's value, and a tab whose last applied update came from a bulk
\* operation still holds that operation's value.
C8_FailFastNoRollback ==
  /\ \A h \in AllHandlers :
       Bulk(h) =>
         /\ h.failed # {} => h.settled = "rejected"
         /\ h.settled = "resolved" => (h.failed = {} /\ h.todo = {})
         /\ \A r \in h.results : r.tab \in h.issued \ (h.todo \cup h.failed)
         /\ \A r \in h.results : r.host = TargetOf(h.op)
         /\ h.todo \cup h.failed \subseteq h.issued
         /\ h.todo \cap h.failed = {}
  /\ \A t \in Tabs :
       hLastWrite[t].op \in {"muteAll", "unmuteAll", "muteAllExcept"}
         => hMuted[t] = TargetOf(hLastWrite[t].op)
C8_Witness ==
  /\ Bulk(lastDone)
  /\ lastDone.settled = "rejected"
  /\ lastDone.failed # {}
  /\ \E r \in lastDone.results :
       /\ hLastWrite[r.tab].op = lastDone.op
       /\ hMuted[r.tab] = TargetOf(lastDone.op)

\* C9: setMuteState resolves with the muted flag of the record the host
\* returns, also when that is not the requested value, and a rejected update
\* resolves with nothing.
C9_HostConfirmed ==
  \A h \in AllHandlers :
    Bulk(h) =>
      /\ \A r \in h.results : r.value = r.host
      /\ \A t \in h.failed : \A r \in h.results : r.tab # t
C9_Witness ==
  \E h \in AllHandlers :
    /\ Bulk(h)
    /\ h.failed # {}
    /\ \E r \in h.results : r.value # TargetOf(h.op)

\* C10: toggleMuteState issues its update only after its read has answered, with
\* the negation of the value read (whatever the clicked row displayed); when the
\* read fails the call is rejected and no update is issued.
C10_ReadThenWrite ==
  \A h \in AllHandlers :
    Toggle(h) =>
      /\ h.issued # {} => (h.readDone /\ h.written = ~h.readVal /\ h.issued = {h.tab})
      /\ h.pc = "update" => h.issued # {}
      /\ h.settled = "resolved" => h.issued # {}
      /\ (h.pc = "done" /\ ~h.readDone) => (h.settled = "rejected" /\ h.issued = {})
C10_Witness ==
  \E h \in AllHandlers :
    /\ Toggle(h)
    /\ h.settled = "resolved"
    /\ h.shown # h.readVal

\* C11: a per-row toggle whose read or update the host rejects leaves the list
\* as it is shown (the clicked row and every other row) and does not render the
\* global button again: no label change, no new check of the all-muted state.
ToggleRejectedStep ==
  /\ Len(handlers') < Len(handlers)
  /\ lastDone'.kind = "toggle"
  /\ lastDone'.settled = "rejected"
C11_FailedToggleShowsNothing ==
  [][ToggleRejectedStep =>
       /\ tabsList' = tabsList
       /\ label' = label
       /\ checks' = checks
       /\ allTabsMuted' = allTabsMuted]_vars
C11_Witness ==
  /\ lastDone.kind = "toggle"
  /\ lastDone.settled = "rejected"
  /\ lastDone.readDone
  /\ lastDone.attached
  /\ tabsList.kind = "rows"
  /\ \E r \in 1..Len(tabsList.rows) :
       tabsList.rows[r].id = lastDone.tab /\ tabsList.rows[r].muted # hMuted[lastDone.tab]

\* C12: when a host call of the initial load has failed (the active-tab query,
\* the audible-tabs query or the all-tabs query of the all-muted check), the
\* popup, once the load is over, shows an error message in place of the list.
InitialLoadOver ==
  /\ initPc \in {"done", "failed"}
  /\ checks = 0
  /\ clicks = 0
C12_InitFailureShown ==
  (InitialLoadOver /\ hErrors > 0) => tabsList.kind \in {"initError", "loadError"}

\* C13: every render of the global button and every click on it decide between
\* 'Mute others' / muteAllExcept and 'Mute all' / muteAll by the audible flag
\* the host reports for the active tab at that moment.
HostActiveAudible == hActive # NoTab /\ hAudible[hActive]
ButtonRenderStep == checks' = checks + 1
GlobalClickStep ==
  /\ clicks' = clicks + 1
  /\ Len(handlers') = Len(handlers) + 1
  /\ handlers'[Len(handlers')].kind = "global"
C13_AudibleIsCurrent ==
  [][/\ ButtonRenderStep =>
          (label' = "Mute others" <=> (~allTabsMuted /\ HostActiveAudible'))
     /\ GlobalClickStep =>
          /\ handlers'[Len(handlers')].op = "muteAllExcept"
                <=> (~allTabsMuted /\ HostActiveAudible)
          /\ handlers'[Len(handlers')].op = "muteAllExcept"
                => handlers'[Len(handlers')].tab = hActive]_vars

\* C14: a render of the audible-tab list shows the placeholder and no row
\* exactly when the host returned no audible tab; otherwise it shows one row
\* per audible tab, in the host's order, each with the host's muted flag.
AudibleTabs == {t \in Tabs : hAudible[t]}
ListShowsHost ==
  /\ tabsList.kind = "quiet" <=> AudibleTabs = {}
  /\ tabsList.kind = "quiet" => tabsList.rows = <<>>
  /\ tabsList.kind # "quiet" =>
       /\ tabsList.kind = "rows"
       /\ Len(tabsList.rows) = Cardinality(AudibleTabs)
       /\ \A r \in 1..Len(tabsList.rows) :
            /\ tabsList.rows[r].id \in AudibleTabs
            /\ tabsList.rows[r].muted = hMuted[tabsList.rows[r].id]
            /\ \A q \in 1..(r - 1) : tabsList.rows[q].id < tabsList.rows[r].id
ListRenderStep ==
  \/ initPc = "getSoundTabs" /\ initPc' = "done"
  \/ /\ Len(handlers') < Len(handlers)
     /\ lastDone'.kind = "global"
     /\ lastDone'.settled = "resolved"
C14_ListRendered ==
  [][ListRenderStep =>
       /\ tabsList'.kind = "loadError" <=> hErrors' > hErrors
       /\ tabsList'.kind # "loadError" => ListShowsHost']_vars
C14_Witness ==
  /\ Quiescent
  /\ lastDone.kind = "global"
  /\ lastDone.settled = "resolved"
  /\ tabsList.kind = "rows"
  /\ Len(tabsList.rows) = NumTabs
  /\ tabsList.rows[1].muted # tabsList.rows[NumTabs].muted

\* C15: getCurrentTab resolves with the tab the host returns as active; it
\* rejects with 'No active tab found' exactly when the host returned no tab and
\* set no last-error, and with the last-error when one is set; after a rejection
\* initializePopup fetches no list, renders no button and attaches no click handler.
C15_GetCurrentTab ==
  /\ initPc = "failed" =>
       /\ tabsList.kind = "initError"
       /\ tabsList.msg = NoActiveTab <=> hErrors = 0
       /\ tabsList.msg = "lastError" <=> hErrors > 0
       /\ hErrors = 0 => hActive = NoTab
       /\ currentTab = Null
       /\ ~listening
       /\ label = "initial"
       /\ checks = 0 /\ clicks = 0 /\ handlers = <<>>
  /\ initPc \in {"getSoundTabs", "done"} =>
       /\ hActive # NoTab
       /\ currentTab.id = hActive
       /\ currentTab.audible = hAudible[hActive]
       /\ tabsList.kind # "initError"
C15_Witness ==
  /\ initPc = "failed"
  /\ hErrors = 0
  /\ tabsList = InitError(NoActiveTab)

\* C16: nothing is retried.  Opening the popup sends no update; a click sends
\* at most one update per tab, all of them at once: each update it issued is
\* in flight, rejected or resolved, never two of these, and once a host call
\* of the click has failed no update is issued for it any more.
ResultTabs(h) == {r.tab : r \in h.results}
OneUpdatePerTab(h) ==
  /\ Bulk(h) =>
       /\ h.issued = h.todo \cup h.failed \cup ResultTabs(h)
       /\ h.todo \cap h.failed = {}
       /\ h.todo \cap ResultTabs(h) = {}
       /\ h.failed \cap ResultTabs(h) = {}
       /\ Cardinality(h.results) = Cardinality(ResultTabs(h))
       /\ h.pc = "done" => h.todo = {}
  /\ Toggle(h) =>
       /\ h.issued \subseteq {h.tab}
       /\ h.pc = "get" => h.issued = {}
       /\ h.pc = "update" => (h.issued = {h.tab} /\ h.settled = "pending")
       /\ h.settled = "rejected" => h.pc = "done"
IssuedOnce ==
  Len(handlers') = Len(handlers) =>
    \A i \in HandlerIds :
      /\ handlers[i].issued # {} => handlers'[i].issued = handlers[i].issued
      /\ handlers[i].pc = "updates" => handlers'[i].todo \subseteq handlers[i].todo
      /\ handlers[i].settled = "rejected" => handlers'[i].issued = handlers[i].issued
C16_NoRetry ==
  /\ [](\A h \in AllHandlers : OneUpdatePerTab(h))
  /\ [](clicks = 0 => (handlers = <<>> /\ \A t \in Tabs : hLastWrite[t] = NoWrite))
  /\ [][IssuedOnce]_vars
C16_Witness ==
  /\ Bulk(lastDone)
  /\ lastDone.settled = "rejected"
  /\ lastDone.failed # {}
  /\ ResultTabs(lastDone) # {}
  /\ handlers = <<>>
  /\ clicks < MaxClicks

\* C17: a click on the global button performs the operation the label shown at
\* the click announces: 'Unmute all' unmuteAll, 'Mute others' muteAllExcept of
\* the active tab, 'Mute all' muteAll.
Announced(shownLabel) ==
  IF shownLabel = "Unmute all" THEN "unmuteAll"
  ELSE IF shownLabel = "Mute others" THEN "muteAllExcept"
  ELSE IF shownLabel = "Mute all" THEN "muteAll" ELSE "none"
C17_ClickDoesLabel ==
  [][GlobalClickStep =>
       /\ handlers'[Len(handlers')].op = Announced(label)
       /\ label = "Mute others" => handlers'[Len(handlers')].tab = hActive]_vars

\* C18: a bulk operation issues the updates of all qualifying tabs at once,
\* before any is answered; it resolves only when the host has confirmed every
\* one, with one result per qualifying tab, each the operation's value; in
\* whatever order the host answered, the results and the flags of the tabs it
\* updated are the same.
QualifyingTabs(h) == IF h.op = "muteAllExcept" THEN Tabs \ {h.tab} ELSE Tabs
BulkResolved(h) ==
  (Bulk(h) /\ h.settled = "resolved") =>
    /\ h.todo = {} /\ h.failed = {}
    /\ h.issued = QualifyingTabs(h)
    /\ h.results = {[tab |-> t, host |-> TargetOf(h.op), value |-> TargetOf(h.op)] :
                      t \in QualifyingTabs(h)}
BulkAlone ==
  (Bulk(lastDone) /\ lastDone.settled = "resolved" /\ clicks = 1 /\ handlers = <<>>) =>
    \A t \in Tabs :
      /\ t \in QualifyingTabs(lastDone) => hMuted[t] = TargetOf(lastDone.op)
      /\ t \notin QualifyingTabs(lastDone) => hLastWrite[t] = NoWrite
IssuedTogether ==
  Len(handlers') = Len(handlers) =>
    \A i \in HandlerIds :
      (handlers[i].pc = "getAllTabs" /\ handlers'[i].pc # "getAllTabs") =>
        /\ handlers'[i].issued = QualifyingTabs(handlers[i])
        /\ handlers'[i].todo = handlers'[i].issued
        /\ handlers'[i].results = {}
C18_BulkJoin ==
  /\ [](\A h \in AllHandlers : BulkResolved(h))
  /\ []BulkAlone
  /\ [][IssuedTogether]_vars
C18_Witness ==
  /\ Bulk(lastDone)
  /\ lastDone.settled = "resolved"
  /\ lastDone.op = "muteAll"
  /\ Cardinality(lastDone.results) = NumTabs
  /\ lastDone.changed # {}
  /\ clicks = 1
  /\ Quiescent

\* C20: the bulk operations are idempotent on the host's flags: an update of a
\* bulk operation applied to a tab whose last applied update came from the same
\* operation, or which already has the requested flag, is still sent and
\* answered but leaves the flag as it was; so a second successful run of the
\* operation changes no flag.
C20_BulkIdempotent ==
  \A h \in AllHandlers :
    Bulk(h) =>
      /\ h.again \cap h.changed = {}
      /\ h.already \cap h.changed = {}
      /\ h.again \cup h.already \subseteq ResultTabs(h)
      /\ (h.settled = "resolved" /\ h.again = h.issued) => h.changed = {}
C20_Witness ==
  /\ Bulk(lastDone)
  /\ lastDone.settled = "resolved"
  /\ lastDone.again = QualifyingTabs(lastDone)
  /\ lastDone.op \in {"muteAll", "muteAllExcept"}
  /\ handlers = <<>>

\* C19: when the host answers every request, the popup always becomes idle
\* again: every adapter call it made has settled.  A call settles once: a
\* promise that is resolved or rejected keeps that state, and a finished
\* handler's call is either resolved or rejected.
SettledOnce ==
  /\ Len(handlers') >= Len(handlers) =>
       \A i \in HandlerIds :
         handlers[i].settled # "pending" => handlers'[i].settled = handlers[i].settled
  /\ Len(handlers') < Len(handlers) =>
       /\ lastDone'.settled \in {"resolved", "rejected"}
       /\ \E k \in HandlerIds :
            /\ handlers[k].settled # "pending" => lastDone'.settled = handlers[k].settled
            /\ \A j \in HandlerIds \ {k} :
                 handlers[j].settled # "pending" =>
                   handlers'[IF j < k THEN j ELSE j - 1].settled = handlers[j].settled
C19_EverySettles ==
  /\ ~Quiescent ~> Quiescent
  /\ [](lastDone.kind # "none" => lastDone.settled \in {"resolved", "rejected"})
  /\ [][SettledOnce]_vars
C19_Witness ==
  /\ Quiescent
  /\ clicks = MaxClicks
  /\ Bulk(lastDone)
  /\ lastDone.settled = "rejected"
  /\ lastDone.failed # {}
  /\ lastDone.issued # lastDone.failed

\* what the two popups show and what they have asked of the host
SameList == sList = tabsList
SameCalls ==
  /\ Len(sHandlers) = Len(handlers)
  /\ \A i \in HandlerIds :
       /\ handlers[i].kind = "toggle"
       /\ sHandlers[i].tab = handlers[i].tab
       /\ sHandlers[i].pc = handlers[i].pc
       /\ sHandlers[i].pc = "update" => sHandlers[i].written = handlers[i].written
SameQueries == (sPc = "done") <=> (initPc \in {"done", "failed"})

\* C21 as stated: while the global button is not clicked, the popup without
\* it shows the same list (placeholder, rows, error message, row displays) as
\* the popup with it, and has issued the same audible-tab query and the same
\* toggle calls, whenever both have answered the same events.
C21_VariantsSame ==
  (initPc \in {"done", "failed"} /\ sPc = "done") => (SameList /\ SameCalls)

\* C21, amended: the same, provided getCurrentTab resolved in the popup with
\* the global button; then the two agree at every moment.
C21_VariantsAgree ==
  initPc # "failed" => (SameList /\ SameCalls /\ SameQueries)
C21_Witness ==
  /\ initPc = "done"
  /\ sPc = "done"
  /\ clicks = MaxClicks
  /\ handlers = <<>>
  /\ lastDone.kind = "toggle"
  /\ lastDone.settled = "resolved"
  /\ sList.kind = "rows"
  /\ \E r \in 1..Len(sList.rows) :
       sList.rows[r].id = lastDone.tab /\ sList.rows[r].muted = lastDone.result

=============================================================================
